---- MODULE Spec2Model ----
(***************************************************************************)
(* octoherd-script-remove-eol-node-versions: script() with its requests,   *)
(* the workflow transformation (updateYamlFile) and the removal predicates *)
(* of utils/yaml-parser.js, over an abstract YAML document tree.           *)
(*                                                                         *)
(* A workflow text is a record of jobs; every version scalar of the text   *)
(* is a token (plain or quoted).  parseDocument types the tokens (a plain  *)
(* numeral is a number, anything else a string), stringify renders them    *)
(* back.  A value the code reads as `undefined` is modelled by a has*      *)
(* flag, and a property access on it by the outcome "Threw" (TypeError).   *)
(*                                                                         *)
(* The repository holds four copies of script().  The two that use the     *)
(* pull-request plugin (script.js:47 and part_000:35) are followed to      *)
(* their end, the two that use the text-file plugin (script.js:258, 514)   *)
(* up to the end of their contents request.  The claims on the transform   *)
(* are stated for script.js:47 unless they name part_000.                  *)
(***************************************************************************)
EXTENDS Integers, Sequences, FiniteSets, TLC

VARIABLES pc, filesLeft, op, content, outcome, rerun,
          variant, archived, listing, changes, requests, log, changed, pr,
          versionSet, calls

vars ==
  <<pc, filesLeft, op, content, outcome, rerun, variant, archived, listing, changes,
    requests, log, changed, pr, versionSet, calls>>

(* ----------------------------- bounds --------------------------------- *)

\* jobs of a multi-job workflow
MaxJobs == 2
\* elements of a matrix version list
MaxVersions == 2
\* workflow files of one repository run
MaxFiles == 2
\* largest numeral the parser table knows
MaxNumeral == 30

(* ------------------------ program constants --------------------------- *)

NODE_VERSIONS_TO_REMOVE == <<14, 16>>

NODE_VERSIONS == <<18, 20>>

\* the same two constants in the earlier copies of the script
NODE_VERSIONS_TO_REMOVE_V1 == <<10, 12>>

NODE_VERSIONS_V1 == <<14, 16, 18>>

WORKFLOWS == ".github/workflows/"

NOT_FOUND == 404

SETUP_NODE == "actions/setup-node"

(* ------------------------ scalars and tokens -------------------------- *)

\* a parsed scalar: a JS number or a JS string
Num(n) == [t |-> "num", n |-> n, s |-> ""]

Str(s) == [t |-> "str", n |-> 0, s |-> s]

\* a scalar as written in the text
Plain(s) == [quoted |-> FALSE, s |-> s]

Quoted(s) == [quoted |-> TRUE, s |-> s]

Digit(d) ==
  CASE d = 0 -> "0" [] d = 1 -> "1" [] d = 2 -> "2" [] d = 3 -> "3"
    [] d = 4 -> "4" [] d = 5 -> "5" [] d = 6 -> "6" [] d = 7 -> "7"
    [] d = 8 -> "8" [] d = 9 -> "9"

RECURSIVE JsString(_)
\* String(n) of a non-negative integer
JsString(n) == IF n < 10 THEN Digit(n) ELSE JsString(n \div 10) \o Digit(n % 10)

Numerals == [n \in 0..MaxNumeral |-> JsString(n)]

IsNumeral(s) == \E n \in DOMAIN Numerals : Numerals[n] = s

NumberOf(s) == CHOOSE n \in DOMAIN Numerals : Numerals[n] = s

\* yaml's core schema: a plain numeral is a number, all else a string
parseScalar(tok) ==
  IF ~tok.quoted /\ IsNumeral(tok.s) THEN Num(NumberOf(tok.s)) ELSE Str(tok.s)

\* a number is written plain; a string that would read back as a number is quoted
stringifyScalar(sc) ==
  IF sc.t = "num" THEN Plain(JsString(sc.n))
  ELSE IF IsNumeral(sc.s) THEN Quoted(sc.s) ELSE Plain(sc.s)

(* ------------------------- parse / serialize -------------------------- *)

parsePair(p) == [key |-> p.key, value |-> [x \in DOMAIN p.value |-> parseScalar(p.value[x])]]

parseStep(st) == [st EXCEPT !.version = parseScalar(st.version)]

parseJob(j) ==
  [j EXCEPT !.matrix = [x \in DOMAIN j.matrix |-> parsePair(j.matrix[x])],
            !.steps = [x \in DOMAIN j.steps |-> parseStep(j.steps[x])]]

\* parseDocument never throws: a malformed text gives a document with errors
\* and whatever contents could be read
parseDocument(text) ==
  [errors |-> ~text.valid, hasJobs |-> text.hasJobs, jobs |-> [x \in DOMAIN text.jobs |-> parseJob(text.jobs[x])]]

stringifyPair(p) == [key |-> p.key, value |-> [x \in DOMAIN p.value |-> stringifyScalar(p.value[x])]]

stringifyStep(st) == [st EXCEPT !.version = stringifyScalar(st.version)]

stringifyJob(j) ==
  [j EXCEPT !.matrix = [x \in DOMAIN j.matrix |-> stringifyPair(j.matrix[x])],
            !.steps = [x \in DOMAIN j.steps |-> stringifyStep(j.steps[x])]]

stringify(doc) ==
  [valid |-> TRUE, hasJobs |-> doc.hasJobs, jobs |-> [x \in DOMAIN doc.jobs |-> stringifyJob(doc.jobs[x])],
   style |-> "yaml"]

\* prettier.format(text, { parser: 'yaml' }): same document, prettier's layout
prettierFormat(text) == [text EXCEPT !.style = "prettier"]

\* Buffer.from(content, encoding).toString('utf-8')
decode(c) == c.text

\* the document read from the content string as it is handed over, undecoded:
\* base64 text is one plain scalar, a document without `jobs`
parseRaw(c) ==
  IF c.encoding = "base64" THEN [errors |-> FALSE, hasJobs |-> FALSE, jobs |-> <<>>]
  ELSE parseDocument(c.text)

(* ----------------------- utils/yaml-parser.js ------------------------- *)

\* Array.prototype.includes on the numbers to remove (SameValueZero: a string
\* never equals a number)
includesNumber(list, sc) == sc.t = "num" /\ \E i \in DOMAIN list : list[i] = sc.n

\* nodeVersionsToRemove.map(String).includes(nodeVersion)
includesString(list, sc) == sc.t = "str" /\ \E i \in DOMAIN list : JsString(list[i]) = sc.s

\* the comparison without its map(String) half
versionMatches_numbersOnly(nodeVersion, nodeVersionsToRemove) ==
  includesNumber(nodeVersionsToRemove, nodeVersion)

versionMatches(nodeVersion, nodeVersionsToRemove) ==
  includesNumber(nodeVersionsToRemove, nodeVersion)
    \/ includesString(nodeVersionsToRemove, nodeVersion)

\* a find that keeps the last pair whose key is node or node_version
findNodeVersions_last(job) ==
  IF ~job.hasStrategy \/ ~job.hasMatrix THEN 0
  ELSE LET hits == {i \in DOMAIN job.matrix :
                      job.matrix[i].key = "node" \/ job.matrix[i].key = "node_version"}
       IN IF hits = {} THEN 0 ELSE CHOOSE i \in hits : \A k \in hits : i >= k

\* job.get('strategy')?.get('matrix')?.items.find(key is node or node_version):
\* the index of the first such pair, 0 when there is none
findNodeVersions(job) ==
  IF ~job.hasStrategy \/ ~job.hasMatrix THEN 0
  ELSE LET hits == {i \in DOMAIN job.matrix :
                      job.matrix[i].key = "node" \/ job.matrix[i].key = "node_version"}
       IN IF hits = {} THEN 0 ELSE CHOOSE i \in hits : \A k \in hits : i <= k

RECURSIVE scanMatrix(_, _, _)
scanMatrix(jobs, i, nodeVersionsToRemove) ==
  IF i > Len(jobs) THEN "false"
  ELSE LET k == findNodeVersions(jobs[i])
       IN IF k # 0
          THEN IF \E e \in DOMAIN jobs[i].matrix[k].value :
                     versionMatches(jobs[i].matrix[k].value[e], nodeVersionsToRemove)
               THEN "true" ELSE "false"
          ELSE scanMatrix(jobs, i + 1, nodeVersionsToRemove)

\* "true" | "false" | "Threw" (jobs.items of undefined)
hasNodeVersionMatrixToRemove(doc, nodeVersionsToRemove) ==
  IF ~doc.hasJobs THEN "Threw" ELSE scanMatrix(doc.jobs, 1, nodeVersionsToRemove)

\* step?.get('uses') && step?.get('uses').includes('actions/setup-node')
usesSetupNode(step) == \E i \in DOMAIN step.uses : step.uses[i] = SETUP_NODE

\* steps.items.find(...): the index of the first setup-node step, 0 when none
findSetupStep(steps) ==
  LET hits == {i \in DOMAIN steps : usesSetupNode(steps[i])}
  IN IF hits = {} THEN 0 ELSE CHOOSE i \in hits : \A k \in hits : i <= k

\* if (nodeVersion): 0 and '' are falsy
truthy(sc) == IF sc.t = "num" THEN sc.n # 0 ELSE sc.s # ""

RECURSIVE scanSteps(_, _, _)
scanSteps(jobs, i, nodeVersionsToRemove) ==
  IF i > Len(jobs) THEN "false"
  ELSE IF ~jobs[i].hasSteps THEN "Threw"
  ELSE LET k == findSetupStep(jobs[i].steps)
       IN IF k = 0 THEN scanSteps(jobs, i + 1, nodeVersionsToRemove)
          ELSE IF ~jobs[i].steps[k].hasWith THEN "Threw"
          ELSE IF jobs[i].steps[k].hasVersion /\ truthy(jobs[i].steps[k].version)
          THEN IF versionMatches(jobs[i].steps[k].version, nodeVersionsToRemove)
               THEN "true" ELSE "false"
          ELSE scanSteps(jobs, i + 1, nodeVersionsToRemove)

\* "true" | "false" | "Threw"
hasNodeVersionToRemove(doc, nodeVersionsToRemove) ==
  IF ~doc.hasJobs THEN "Threw" ELSE scanSteps(doc.jobs, 1, nodeVersionsToRemove)

(* ---------------------- script.js: updateYamlFile --------------------- *)

\* a rewrite that drops the versions to remove and appends the install list
newMatrixValue_merge(old, nodeVersions) ==
  LET Kept(sc) == ~versionMatches(sc, NODE_VERSIONS_TO_REMOVE)
  IN SelectSeq(old, Kept) \o [x \in DOMAIN nodeVersions |-> Num(nodeVersions[x])]

\* the value setIn puts in place of the old list: the install list, as numbers
newMatrixValue(old, nodeVersions) == [x \in DOMAIN nodeVersions |-> Num(nodeVersions[x])]

\* yamlDocument.setIn(['jobs', jobName, 'strategy', 'matrix', key], value): the
\* first job of that name, the first pair of that key
setIn(doc, jobName, key, nodeVersions) ==
  LET ji == CHOOSE i \in DOMAIN doc.jobs :
              /\ doc.jobs[i].name = jobName
              /\ \A k \in 1..(i - 1) : doc.jobs[k].name # jobName
      pi == CHOOSE i \in DOMAIN doc.jobs[ji].matrix :
              /\ doc.jobs[ji].matrix[i].key = key
              /\ \A k \in 1..(i - 1) : doc.jobs[ji].matrix[k].key # key
  IN [doc EXCEPT !.jobs[ji].matrix[pi].value = newMatrixValue(@, nodeVersions)]

RECURSIVE rewriteJobs(_, _, _)
\* for (const { value: job, key: jobName } of jobs.items) { ... }
rewriteJobs(doc, i, nodeVersions) ==
  IF i > Len(doc.jobs) THEN doc
  ELSE LET k == findNodeVersions(doc.jobs[i])
       IN IF k # 0
          THEN rewriteJobs(setIn(doc, doc.jobs[i].name, doc.jobs[i].matrix[k].key,
                                 nodeVersions), i + 1, nodeVersions)
          ELSE rewriteJobs(doc, i + 1, nodeVersions)

NoText == [valid |-> FALSE, hasJobs |-> FALSE, jobs |-> <<>>, style |-> "none"]

\* the value updateYamlFile returns, or "Threw" when it raises; vs is the pair
\* of module-level arrays NODE_VERSIONS_TO_REMOVE / NODE_VERSIONS it reads
updateYamlFile(c, vs) ==
  IF ~c.exists THEN [kind |-> "null", text |-> NoText]
  ELSE LET found == hasNodeVersionToRemove(parseRaw(c), vs.remove)
       IN IF found = "Threw" THEN [kind |-> "Threw", text |-> NoText]
          ELSE IF found = "true"
          THEN LET yamlDocument == parseDocument(decode(c))
               IN IF ~yamlDocument.hasJobs \/ yamlDocument.errors
                  \* jobs.items of undefined; stringify of a document with errors
                  THEN [kind |-> "Threw", text |-> NoText]
                  ELSE [kind |-> "Rewritten",
                        text |-> prettierFormat(stringify(
                                   rewriteJobs(yamlDocument, 1, vs.install)))]
          ELSE [kind |-> "Unchanged", text |-> decode(c)]

\* the library calls one invocation of updateYamlFile makes, in their order
updateCalls(c, found) ==
  IF ~c.exists THEN <<>>
  ELSE <<"parseDocument">>
         \o (IF found = "true"
             THEN LET yamlDocument == parseDocument(decode(c))
                  IN <<"parseDocument">>
                       \o (IF ~yamlDocument.hasJobs THEN <<>>
                           ELSE IF yamlDocument.errors THEN <<"stringify">>
                           ELSE <<"stringify", "prettier.format">>)
             ELSE <<>>)

(* ------------------- part_000: the earlier updateYamlFile ------------- *)

\* yaml-parser.js as the earlier script imports it: hasNodeVersionToRemove
\* looks at the matrix list of the first job that has one
hasNodeVersionToRemove_v1(doc, nodeVersionsToRemove) ==
  IF ~doc.hasJobs THEN "Threw" ELSE scanMatrix(doc.jobs, 1, nodeVersionsToRemove)

\* job.get('strategy')?.get('matrix')?.get('node_version'): the index of the
\* first pair of that key, 0 when there is none
getNodeVersion(job) ==
  IF ~job.hasStrategy \/ ~job.hasMatrix THEN 0
  ELSE LET hits == {i \in DOMAIN job.matrix : job.matrix[i].key = "node_version"}
       IN IF hits = {} THEN 0 ELSE CHOOSE i \in hits : \A k \in hits : i <= k

RECURSIVE rewriteJobs_v1(_, _, _)
rewriteJobs_v1(doc, i, nodeVersions) ==
  IF i > Len(doc.jobs) THEN doc
  ELSE IF getNodeVersion(doc.jobs[i]) # 0
  THEN rewriteJobs_v1(setIn(doc, doc.jobs[i].name, "node_version", nodeVersions),
                      i + 1, nodeVersions)
  ELSE rewriteJobs_v1(doc, i + 1, nodeVersions)

\* the unchanged branch returns `content` as it was handed over: the same
\* text when the encoding is utf-8, the only encoding that gets there
updateYamlFile_v1(c, vs) ==
  IF ~c.exists THEN [kind |-> "null", text |-> NoText]
  ELSE LET found == hasNodeVersionToRemove_v1(parseRaw(c), vs.remove)
       IN IF found = "Threw" THEN [kind |-> "Threw", text |-> NoText]
          ELSE IF found = "true"
          THEN LET yamlDocument == parseDocument(decode(c))
               IN IF ~yamlDocument.hasJobs \/ yamlDocument.errors
                  THEN [kind |-> "Threw", text |-> NoText]
                  ELSE [kind |-> "Rewritten",
                        text |-> prettierFormat(stringify(
                                   rewriteJobs_v1(yamlDocument, 1, vs.install)))]
          ELSE [kind |-> "Unchanged", text |-> c.text]

\* an invocation that takes the first version to remove off the shared array
versionSetAfter_shift(c, vs) ==
  IF c.exists /\ Len(vs.remove) > 0 THEN [vs EXCEPT !.remove = Tail(@)] ELSE vs

\* the module-level arrays after an invocation: no statement of the transform
\* writes to them (setIn takes NODE_VERSIONS as a value, map(String) copies)
versionSetAfter(c, vs) == vs

(* ------------------------------ inputs -------------------------------- *)

NoToken == Plain("")

Tokens ==
  {Plain("14"), Quoted("14"), Plain("16"), Quoted("16"), Plain("18"), Plain("lts/*")}

ThinTokens == {Plain("14"), Plain("18")}

VersionLists(tokens, max) == UNION {[1..n -> tokens] : n \in 1..max}

RunStep == [uses |-> <<>>, hasWith |-> FALSE, hasVersion |-> FALSE, version |-> NoToken]

SetupNoWith ==
  [uses |-> <<SETUP_NODE, "@v4">>, hasWith |-> FALSE, hasVersion |-> FALSE,
   version |-> NoToken]

SetupNoVersion ==
  [uses |-> <<SETUP_NODE, "@v4">>, hasWith |-> TRUE, hasVersion |-> FALSE,
   version |-> NoToken]

Setup(tok) ==
  [uses |-> <<SETUP_NODE, "@v4">>, hasWith |-> TRUE, hasVersion |-> TRUE, version |-> tok]

\* a job's steps: absent, or a run step followed by at most one setup-node step
StepsOptions(tokens, others) ==
  {[has |-> FALSE, items |-> <<>>]}
    \cup {[has |-> TRUE, items |-> <<RunStep>> \o tl] :
            tl \in {<<>>} \cup {<<Setup(t)>> : t \in tokens} \cup others}

\* matrices of two keys: both version keys in either order, or a version key
\* after another key
TwoKeyMatrices(tokens) ==
  {<<[key |-> k[1], value |-> <<a>>], [key |-> k[2], value |-> <<b>>]>> :
     k \in {<<"node", "node_version">>, <<"node_version", "node">>},
     a \in tokens, b \in tokens}
    \cup {<<[key |-> "os", value |-> <<Plain("ubuntu-latest")>>], [key |-> k, value |-> <<a>>]>> :
            k \in {"node", "node_version"}, a \in tokens}

\* a job's strategy: absent, without matrix, a matrix without version key, a
\* matrix whose version key is node or node_version, or a matrix of two keys
MatrixOptions(lists, structural) ==
  {[hasStrategy |-> FALSE, hasMatrix |-> FALSE, matrix |-> <<>>]}
    \cup (IF structural
          THEN {[hasStrategy |-> TRUE, hasMatrix |-> FALSE, matrix |-> <<>>],
                [hasStrategy |-> TRUE, hasMatrix |-> TRUE,
                 matrix |-> <<[key |-> "os", value |-> <<Plain("ubuntu-latest")>>]>>]}
          ELSE {})
    \cup (IF structural
          THEN {[hasStrategy |-> TRUE, hasMatrix |-> TRUE, matrix |-> m] : m \in TwoKeyMatrices(ThinTokens)}
          ELSE {})
    \cup {[hasStrategy |-> TRUE, hasMatrix |-> TRUE,
           matrix |-> <<[key |-> k, value |-> l]>>] :
            k \in {"node", "node_version"}, l \in lists}

Job(name, m, st) ==
  [name |-> name, hasStrategy |-> m.hasStrategy, hasMatrix |-> m.hasMatrix,
   matrix |-> m.matrix, hasSteps |-> st.has, steps |-> st.items]

JobName(i) == "job" \o JsString(i)

\* single-job workflows over every token, lists up to MaxVersions
FatJobs ==
  {Job(JobName(1), m, st) :
     m \in MatrixOptions(VersionLists(Tokens, MaxVersions), TRUE),
     st \in StepsOptions(Tokens, {<<SetupNoWith>>, <<SetupNoVersion>>})}

ThinShapes ==
  MatrixOptions(VersionLists(ThinTokens, 1), FALSE) \X StepsOptions(ThinTokens, {<<SetupNoVersion>>})

\* workflows of 2..MaxJobs jobs over the thin tokens
ThinJobLists ==
  UNION {{[i \in 1..n |-> Job(JobName(i), f[i][1], f[i][2])] : f \in [1..n -> ThinShapes]} :
           n \in 2..MaxJobs}

Workflow(jobs) == [valid |-> TRUE, hasJobs |-> TRUE, jobs |-> jobs, style |-> "source"]

\* a text with a syntax error: nothing of it could be read, or its jobs could
Malformed(text) == [text EXCEPT !.valid = FALSE]

NoJobs == [valid |-> TRUE, hasJobs |-> FALSE, jobs |-> <<>>, style |-> "source"]

ThinTexts == {Workflow(<<Job(JobName(1), sh[1], sh[2])>>) : sh \in ThinShapes}

SmallTexts ==
  {NoJobs, Workflow(<<>>), Malformed(NoJobs)} \cup ThinTexts
    \cup {Malformed(t) : t \in ThinTexts}

Texts == SmallTexts \cup {Workflow(<<j>>) : j \in FatJobs}
           \cup {Workflow(js) : js \in ThinJobLists}

Encodings == {"utf-8", "base64"}

File(encoding, text) == [exists |-> TRUE, encoding |-> encoding, text |-> text]

NoFile == [exists |-> FALSE, encoding |-> "none", text |-> NoText]

\* what the host hands to updateYamlFile
Contents ==
  {NoFile} \cup {File("utf-8", t) : t \in Texts} \cup {File("base64", t) : t \in SmallTexts}

\* what the plugin hands to the earlier updateYamlFile: the versions of its day
TokensV1 == {Plain("10"), Quoted("12"), Plain("14")}

ThinTokensV1 == {Plain("10"), Plain("14")}

JobsV1 ==
  {Job(JobName(1), m, st) :
     m \in MatrixOptions(VersionLists(TokensV1, MaxVersions), FALSE)
            \cup {[hasStrategy |-> TRUE, hasMatrix |-> TRUE, matrix |-> x] :
                    x \in TwoKeyMatrices(ThinTokensV1)},
     st \in StepsOptions({}, {})}

ShapesV1 == MatrixOptions(VersionLists(ThinTokensV1, 1), FALSE) \X StepsOptions({}, {})

JobListsV1 ==
  UNION {{[i \in 1..n |-> Job(JobName(i), f[i][1], f[i][2])] : f \in [1..n -> ShapesV1]} :
           n \in 2..MaxJobs}

TextsV1 ==
  {NoJobs, Workflow(<<>>), Malformed(NoJobs)} \cup {Workflow(<<j>>) : j \in JobsV1}
    \cup {Workflow(js) : js \in JobListsV1}

ContentsV1 ==
  {NoFile} \cup {File("utf-8", t) : t \in TextsV1}
    \cup {File("base64", t) : t \in {NoJobs, Workflow(<<>>)}}

\* package.json as the plugin hands it over: absent, not JSON, or a manifest
\* with or without engines.node and '@pika/pack'
PackageFiles ==
  {[exists |-> FALSE, valid |-> FALSE, node |-> "", pika |-> FALSE, formatted |-> FALSE],
   [exists |-> TRUE, valid |-> FALSE, node |-> "", pika |-> FALSE, formatted |-> FALSE]}
    \cup {[exists |-> TRUE, valid |-> TRUE, node |-> n, pika |-> k, formatted |-> f] :
            n \in {"", ">= 14", ">= 18"}, k \in BOOLEAN, f \in BOOLEAN}

\* scripts/build.mjs: absent, or a script that names node14 / 16 or not
BuildScripts ==
  {[exists |-> FALSE, mentions |-> FALSE, formatted |-> FALSE]}
    \cup {[exists |-> TRUE, mentions |-> m, formatted |-> f] : m \in BOOLEAN, f \in BOOLEAN}

\* an entry name, cut before each of its dots
Names ==
  {<<"ci", ".yml">>, <<"test", ".yaml">>, <<"README", ".md">>, <<"ci", ".yml", ".bak">>,
   <<"yaml">>}

\* a directory's entries: distinct names
DirListings ==
  UNION {{e \in [1..n -> Names] : \A i \in 1..n : \A j \in 1..n : i # j => e[i] # e[j]} :
           n \in 0..MaxFiles}

NoError == [thrown |-> FALSE, hasStatus |-> FALSE, status |-> 0]

\* a rejected request (RequestError with a status) or a failure without one
Errors ==
  {[thrown |-> TRUE, hasStatus |-> TRUE, status |-> st] : st \in {NOT_FOUND, 403, 500}}
    \cup {[thrown |-> TRUE, hasStatus |-> FALSE, status |-> 0]}

NoListing == [kind |-> "none", entries |-> <<>>, error |-> NoError]

\* answers to GET /repos/{owner}/{repo}/contents/{path}
ContentsResponses ==
  {[kind |-> "dir", entries |-> e, error |-> NoError] : e \in DirListings}
    \cup {[kind |-> "file", entries |-> <<n>>, error |-> NoError] : n \in Names}
    \cup {[kind |-> "error", entries |-> <<>>, error |-> e] : e \in Errors}

(* ------------------------------ script() ------------------------------ *)

\* the copies of script(): script.js:47, part_000:35, script.js:258, script.js:514
Variants == {"pull-request", "pull-request-v1", "text-file", "text-file-v1"}

PullRequestVariants == {"pull-request", "pull-request-v1"}

VersionSetOf(v) ==
  IF v = "pull-request"
  THEN [remove |-> NODE_VERSIONS_TO_REMOVE, install |-> NODE_VERSIONS]
  ELSE [remove |-> NODE_VERSIONS_TO_REMOVE_V1, install |-> NODE_VERSIONS_V1]

\* /\.ya?ml$/.test(fileName): the name ends in .yml or .yaml
isYamlFile(fileName) == fileName[Len(fileName)] \in {".yml", ".yaml"}

\* a script that goes on whatever repository.archived says
afterArchivedCheck_unchecked(v, isArchived) ==
  IF v \in PullRequestVariants THEN "contents" ELSE "branches"

\* if (repository.archived) { log.info; return }, else on to the first request
afterArchivedCheck(v, isArchived) ==
  IF isArchived THEN "done"
  ELSE IF v \in PullRequestVariants THEN "contents" ELSE "branches"

\* a handler that swallows every error of the contents request
catchContents_swallow(e) == "return"

\* catch (e) { if (e.status === 404) { log.warn; return } throw e }
catchContents(e) == IF e.hasStatus /\ e.status = NOT_FOUND THEN "return" ELSE "throw"

\* `const changes = [...]`: package.json, and scripts/build.mjs in script.js
initialChanges(v) ==
  IF v = "pull-request" THEN <<<<"package.json">>, <<"scripts/build.mjs">>>>
  ELSE IF v = "pull-request-v1" THEN <<<<"package.json">>>>
  ELSE <<>>

\* the update function of package.json: what it returns and whether that
\* differs from the file
updatePackageJson(v, pkg, vs) ==
  IF ~pkg.exists THEN [kind |-> "null", changed |-> FALSE]
  ELSE IF ~pkg.valid THEN [kind |-> "Threw", changed |-> FALSE]
  ELSE IF v = "pull-request"
  THEN [kind |-> "text",
        changed |-> pkg.node # ">= " \o JsString(vs.install[1]) \/ ~pkg.formatted]
  \* pkg['@pika/pack'].pipeline[1].push(...)
  ELSE IF ~pkg.pika THEN [kind |-> "Threw", changed |-> FALSE]
  ELSE [kind |-> "text", changed |-> TRUE]

\* the update function of scripts/build.mjs
updateBuildScript(b) ==
  IF ~b.exists THEN [kind |-> "null", changed |-> FALSE]
  ELSE [kind |-> "text", changed |-> b.mentions \/ ~b.formatted]

\* a script that asks for the labels whatever the plugin returned
labelsRequested_always(v, pullRequest) == v = "pull-request"

\* if (pr) { ...; octokit.request('POST .../labels') }: script.js only
labelsRequested(v, pullRequest) == v = "pull-request" /\ pullRequest = "created"

(* --------------------------- state machine ---------------------------- *)

NoOutcome == [kind |-> "none", text |-> NoText]

\* script(octokit, repository) is called for a repository
Init ==
  /\ pc = "start"
  /\ variant \in Variants
  /\ archived \in BOOLEAN
  /\ filesLeft = 0
  /\ op = "none"
  /\ content = NoFile
  /\ outcome = NoOutcome
  /\ rerun = FALSE
  /\ listing = NoListing
  /\ changes = <<>>
  /\ requests = <<>>
  /\ log = <<>>
  /\ changed = FALSE
  /\ pr = "none"
  /\ versionSet = VersionSetOf(variant)
  /\ calls = <<>>

\* the archived check and the declarations up to the first request
Start ==
  /\ pc = "start"
  /\ pc' = afterArchivedCheck(variant, archived)
  /\ log' = IF pc' = "done" THEN Append(log, "info") ELSE log
  /\ changes' = IF pc' = "done" THEN changes ELSE initialChanges(variant)
  /\ UNCHANGED <<filesLeft, op, content, outcome, rerun, variant, archived, listing,
                 requests, changed, pr, versionSet, calls>>

\* the text-file variants: GET branches, then the branch is there or not
GetBranches ==
  /\ pc = "branches"
  /\ requests' = Append(requests, "GET branches")
  /\ \E answer \in {"exists", "missing", "error"} :
       pc' = IF answer = "exists" THEN "contents"
             ELSE IF answer = "missing" THEN "refs" ELSE "rejected"
  /\ UNCHANGED <<filesLeft, op, content, outcome, rerun, variant, archived, listing,
                 changes, log, changed, pr, versionSet, calls>>

\* POST git/refs; without a ref in the answer the script warns and returns
CreateBranch ==
  /\ pc = "refs"
  /\ requests' = Append(requests, "POST git/refs")
  /\ \E answer \in {"ref", "no ref", "error"} :
       /\ pc' = IF answer = "ref" THEN "contents"
                ELSE IF answer = "no ref" THEN "done" ELSE "rejected"
       /\ log' = IF answer = "no ref" THEN Append(log, "warn") ELSE log
  /\ UNCHANGED <<filesLeft, op, content, outcome, rerun, variant, archived, listing,
                 changes, changed, pr, versionSet, calls>>

\* the contents request with its try/catch, and in the pull-request variants
\* the loop that pushes one change per file.  The text-file variants are
\* followed up to here.
GetContents ==
  /\ pc = "contents"
  /\ requests' = Append(requests, "GET contents")
  /\ \E r \in ContentsResponses :
       LET thrown == IF r.kind = "error" THEN r.error
                     \* throw new Error('... should not be a folder ...')
                     ELSE IF r.kind = "dir" /\ variant = "text-file-v1"
                     THEN [thrown |-> TRUE, hasStatus |-> FALSE, status |-> 0]
                     ELSE NoError
           files == IF r.kind = "dir" /\ variant # "text-file-v1"
                    THEN SelectSeq(r.entries, isYamlFile) ELSE r.entries
       IN /\ listing' = r
          /\ IF thrown.thrown
             THEN /\ pc' = IF catchContents(thrown) = "return" THEN "done" ELSE "rejected"
                  /\ log' = IF catchContents(thrown) = "return" THEN Append(log, "warn")
                            ELSE log
                  /\ changes' = changes
             ELSE IF variant \in PullRequestVariants
             THEN /\ pc' = "changes"
                  /\ changes' = changes \o [x \in DOMAIN files |-> <<WORKFLOWS>> \o files[x]]
                  /\ log' = IF Len(files) = 0 THEN Append(log, "info") ELSE log
             ELSE /\ pc' = "listed"
                  /\ changes' = changes
                  /\ log' = log
  /\ UNCHANGED <<filesLeft, op, content, outcome, rerun, variant, archived, changed, pr,
                 versionSet, calls>>

\* composeCreatePullRequest(octokit, { ..., changes, createWhenEmpty: false }):
\* the plugin takes the change list and calls the update functions in order
ComposeCreatePullRequest ==
  /\ pc = "changes"
  /\ requests' = Append(requests, "composeCreatePullRequest")
  /\ filesLeft' = Len(changes) - Len(initialChanges(variant))
  /\ changes' = <<>>
  /\ listing' = NoListing
  /\ pc' = "manifest"
  /\ UNCHANGED <<op, content, outcome, rerun, variant, archived, log, changed, pr,
                 versionSet, calls>>

UpdateManifest ==
  /\ pc = "manifest"
  /\ \E pkg \in PackageFiles :
       LET out == updatePackageJson(variant, pkg, versionSet)
       IN /\ changed' = out.changed
          /\ pc' = IF out.kind = "Threw" THEN "rejected"
                   ELSE IF variant = "pull-request" THEN "build" ELSE "idle"
  /\ UNCHANGED <<filesLeft, op, content, outcome, rerun, variant, archived, listing,
                 changes, requests, log, pr, versionSet, calls>>

UpdateBuildScript ==
  /\ pc = "build"
  /\ \E b \in BuildScripts : changed' = (changed \/ updateBuildScript(b).changed)
  /\ pc' = "idle"
  /\ UNCHANGED <<filesLeft, op, content, outcome, rerun, variant, archived, listing,
                 changes, requests, log, pr, versionSet, calls>>

\* one call of updateYamlFile by the pull-request plugin; an exception leaves
\* the plugin and script(), which has no handler around it
CallUpdate(c, again) ==
  LET out == IF variant = "pull-request" THEN updateYamlFile(c, versionSet)
             ELSE updateYamlFile_v1(c, versionSet)
      found == IF variant = "pull-request"
               THEN hasNodeVersionToRemove(parseRaw(c), versionSet.remove)
               ELSE hasNodeVersionToRemove_v1(parseRaw(c), versionSet.remove)
  IN /\ op' = "updateYamlFile"
     /\ content' = c
     /\ outcome' = out
     /\ rerun' = again
     /\ filesLeft' = filesLeft - 1
     /\ calls' = updateCalls(c, found)
     /\ versionSet' = versionSetAfter(c, versionSet)
     /\ changed' = (changed \/ (out.kind \in {"Rewritten", "Unchanged"} /\ out.text # decode(c)))
     /\ pc' = IF out.kind = "Threw" THEN "rejected" ELSE "returned"
     /\ UNCHANGED <<variant, archived, listing, changes, requests, log, pr>>

UpdateFile ==
  /\ pc = "idle"
  /\ filesLeft > 0
  /\ \E c \in (IF variant = "pull-request" THEN Contents ELSE ContentsV1) :
       CallUpdate(c, FALSE)

\* the next file is the text the previous call returned: the script run again
\* on its own output
UpdateRewrittenFile ==
  /\ pc = "returned"
  /\ filesLeft > 0
  /\ op = "updateYamlFile"
  /\ outcome.kind = "Rewritten"
  /\ \E e \in Encodings : CallUpdate(File(e, outcome.text), TRUE)

\* the caller takes the returned value and goes on
Continue ==
  /\ pc = "returned"
  /\ pc' = "idle"
  /\ op' = "none"
  /\ content' = NoFile
  /\ outcome' = NoOutcome
  /\ rerun' = FALSE
  /\ calls' = <<>>
  /\ UNCHANGED <<filesLeft, variant, archived, listing, changes, requests, log, changed,
                 pr, versionSet>>

CallPredicate(name, c, result) ==
  /\ op' = name
  /\ content' = c
  /\ outcome' = [kind |-> result, text |-> NoText]
  /\ rerun' = FALSE
  /\ calls' = <<"parseDocument">>
  /\ pc' = "returned"
  /\ UNCHANGED <<filesLeft, variant, archived, listing, changes, requests, log, changed,
                 pr, versionSet>>

\* the exported predicates called on a content string
CallHasNodeVersionToRemove ==
  /\ pc = "idle"
  /\ variant = "pull-request"
  /\ \E c \in Contents \ {NoFile} :
       CallPredicate("hasNodeVersionToRemove", c,
                     hasNodeVersionToRemove(parseRaw(c), versionSet.remove))

CallHasNodeVersionMatrixToRemove ==
  /\ pc = "idle"
  /\ variant = "pull-request"
  /\ \E c \in Contents \ {NoFile} :
       CallPredicate("hasNodeVersionMatrixToRemove", c,
                     hasNodeVersionMatrixToRemove(parseRaw(c), versionSet.remove))

\* the plugin has called every update function: it returns a pull request, or
\* null when no change was effective, or it fails; then `if (pr)`
PullRequestReturns ==
  /\ pc = "idle"
  /\ filesLeft = 0
  /\ \E failed \in BOOLEAN :
       /\ pr' = IF failed THEN "none" ELSE IF changed THEN "created" ELSE "null"
       /\ pc' = IF failed THEN "rejected" ELSE "done"
  /\ log' = IF pr' = "created" THEN Append(log, "info") ELSE log
  /\ requests' = IF pc' = "done" /\ labelsRequested(variant, pr')
                 THEN Append(requests, "POST labels") ELSE requests
  /\ UNCHANGED <<filesLeft, op, content, outcome, rerun, variant, archived, listing,
                 changes, changed, versionSet, calls>>

Next ==
  \/ Start
  \/ GetBranches
  \/ CreateBranch
  \/ GetContents
  \/ ComposeCreatePullRequest
  \/ UpdateManifest
  \/ UpdateBuildScript
  \/ UpdateFile
  \/ UpdateRewrittenFile
  \/ Continue
  \/ CallHasNodeVersionToRemove
  \/ CallHasNodeVersionMatrixToRemove
  \/ PullRequestReturns

Spec == Init /\ [][Next]_vars

(* ------------------------- terms of the claims ------------------------ *)

\* a stored scalar that names a version to remove, as a number or as its
\* decimal string
Removal(sc) == sc \in {Num(14), Str("14"), Num(16), Str("16")}

Updated == variant = "pull-request" /\ op = "updateYamlFile" /\ content.exists

\* the document the input text holds, and the one the returned text holds
InDoc == parseDocument(content.text)

OutDoc == parseDocument(outcome.text)

VersionKeys == {"node", "node_version"}

HasVersionList(j) ==
  j.hasStrategy /\ j.hasMatrix /\ \E k \in DOMAIN j.matrix : j.matrix[k].key \in VersionKeys

\* position of the matrix version list of a job that has one
ListAt(j) ==
  CHOOSE k \in DOMAIN j.matrix :
    /\ j.matrix[k].key \in VersionKeys
    /\ \A m \in 1..(k - 1) : j.matrix[m].key \notin VersionKeys

ListHasRemoval(j) ==
  HasVersionList(j) /\ \E e \in DOMAIN j.matrix[ListAt(j)].value :
                          Removal(j.matrix[ListAt(j)].value[e])

IsSetup(st) == Len(st.uses) > 0 /\ st.uses[1] = "actions/setup-node"

HasPin(j) ==
  j.hasSteps /\ \E k \in DOMAIN j.steps :
                   IsSetup(j.steps[k]) /\ j.steps[k].hasWith /\ j.steps[k].hasVersion

\* position of the pinned setup-node step of a job that has one
PinAt(j) ==
  CHOOSE k \in DOMAIN j.steps :
    /\ IsSetup(j.steps[k]) /\ j.steps[k].hasWith /\ j.steps[k].hasVersion
    /\ \A m \in 1..(k - 1) : ~IsSetup(j.steps[m])

PinHasRemoval(j) == HasPin(j) /\ Removal(j.steps[PinAt(j)].version)

\* some located version reference of the document is a version to remove
StaleReference(doc) ==
  \E i \in DOMAIN doc.jobs : ListHasRemoval(doc.jobs[i]) \/ PinHasRemoval(doc.jobs[i])

(* ------------------------------- claims ------------------------------- *)

\* C1: idempotence: the transform run on the text a rewrite returned answers
\* Unchanged.
C1_Idempotence == (Updated /\ rerun) => outcome.kind = "Unchanged"

C3_SinglePinReplacement ==
  (Updated /\ outcome.kind = "Rewritten") =>
    \A i \in DOMAIN InDoc.jobs :
      PinHasRemoval(InDoc.jobs[i]) =>
        outcome.text.jobs[i].steps[PinAt(InDoc.jobs[i])].version = Plain("20")

SingleJob ==
  /\ content.exists /\ content.encoding = "utf-8"
  /\ content.text.valid /\ content.text.hasJobs /\ Len(content.text.jobs) = 1

\* C4: dual representation: on a workflow of one job, the matrix predicate
\* answers true exactly when some element of the version list is 14 or 16 as
\* a number or "14" or "16" as a string, the pinned-step predicate exactly
\* when the pinned version is; and no predicate answers true on a document
\* none of whose stored scalars is one of these.
C4_DualRepresentation ==
  /\ (op = "hasNodeVersionMatrixToRemove" /\ SingleJob /\ HasVersionList(InDoc.jobs[1]))
       => outcome.kind = (IF ListHasRemoval(InDoc.jobs[1]) THEN "true" ELSE "false")
  /\ (op = "hasNodeVersionToRemove" /\ SingleJob /\ HasPin(InDoc.jobs[1]))
       => outcome.kind = (IF PinHasRemoval(InDoc.jobs[1]) THEN "true" ELSE "false")
  /\ (op \in {"hasNodeVersionMatrixToRemove", "hasNodeVersionToRemove"}
        /\ \A i \in DOMAIN InDoc.jobs :
             /\ \A k \in DOMAIN InDoc.jobs[i].matrix :
                  \A e \in DOMAIN InDoc.jobs[i].matrix[k].value :
                    ~Removal(InDoc.jobs[i].matrix[k].value[e])
             /\ \A k \in DOMAIN InDoc.jobs[i].steps : ~Removal(InDoc.jobs[i].steps[k].version))
       => outcome.kind # "true"

\* the matrix predicate answers true on a list whose only match is the string "16"
C4_Witness ==
  /\ op = "hasNodeVersionMatrixToRemove" /\ SingleJob /\ HasVersionList(InDoc.jobs[1])
  /\ InDoc.jobs[1].matrix[ListAt(InDoc.jobs[1])].value = <<Num(18), Str("16")>>
  /\ outcome.kind = "true"

\* C5: no-match passthrough: a document no matrix version list of which holds
\* a version to remove comes back Unchanged, the returned text being the
\* decoded input text.
C5_NoMatchPassthrough ==
  (Updated /\ content.text.valid
     /\ \A i \in DOMAIN InDoc.jobs : ~ListHasRemoval(InDoc.jobs[i]))
    => (outcome.kind = "Unchanged" /\ outcome.text = content.text)

\* C6: the scan covers every job: the outcome is Unchanged only if no located
\* reference of any job is a version to remove, and a document with such a
\* reference at any position is rewritten.
C6_ScanCoversEveryJob ==
  (Updated /\ content.text.valid /\ content.text.hasJobs) =>
    /\ outcome.kind = "Unchanged" => ~StaleReference(InDoc)
    /\ StaleReference(InDoc) => outcome.kind = "Rewritten"

\* C7: no stale references: a rewritten document holds no located version
\* reference, matrix list or pinned step, that is a version to remove.
C7_NoStaleReferences ==
  (Updated /\ outcome.kind = "Rewritten") => ~StaleReference(OutDoc)

\* C8: parse failure is not fatal: a malformed input ends ParseFailed, nothing
\* is thrown, no text is rewritten, and the run goes on with the next file.
C8_ParseFailureNotFatal ==
  (Updated /\ ~content.text.valid) =>
    (outcome.kind = "ParseFailed" /\ pc # "rejected")

\* C9: a document that parses and has no jobs collection is a no-op input:
\* the predicates answer false and the transform answers Unchanged.
C9_NoJobsIsNoOp ==
  (variant = "pull-request" /\ op # "none" /\ content.exists /\ content.text.valid
     /\ ~content.text.hasJobs) =>
    outcome.kind = (IF op = "updateYamlFile" THEN "Unchanged" ELSE "false")

\* C10: optional sub-structures raise no error in the locators: on a document
\* with jobs, whatever its jobs lack (strategy, matrix, steps, with,
\* node-version), neither predicate throws.
C10_OptionalSubstructures ==
  (op \in {"hasNodeVersionMatrixToRemove", "hasNodeVersionToRemove"}
     /\ content.encoding = "utf-8" /\ content.text.valid /\ content.text.hasJobs)
    => outcome.kind # "Threw"

\* C11: field-name preservation, first match wins: in a rewritten document
\* every matrix has the keys it had, in their order; the first node or
\* node_version key of a matrix holds versionsToInstall and every other key,
\* a second version key included, holds the value it had.
C11_FieldNamePreservation ==
  (Updated /\ outcome.kind = "Rewritten") =>
    \A i \in DOMAIN InDoc.jobs :
      /\ Len(OutDoc.jobs[i].matrix) = Len(InDoc.jobs[i].matrix)
      /\ \A k \in DOMAIN InDoc.jobs[i].matrix :
           /\ OutDoc.jobs[i].matrix[k].key = InDoc.jobs[i].matrix[k].key
           /\ OutDoc.jobs[i].matrix[k].value =
                IF HasVersionList(InDoc.jobs[i]) /\ k = ListAt(InDoc.jobs[i])
                THEN <<Num(18), Num(20)>>
                ELSE InDoc.jobs[i].matrix[k].value

\* a rewrite of a matrix that has both keys, the second one holding a version
\* to remove
C11_Witness ==
  /\ Updated /\ outcome.kind = "Rewritten"
  /\ \E i \in DOMAIN InDoc.jobs :
       /\ Len(InDoc.jobs[i].matrix) = 2
       /\ InDoc.jobs[i].matrix[1].key \in VersionKeys
       /\ InDoc.jobs[i].matrix[2].key \in VersionKeys
       /\ InDoc.jobs[i].matrix[2].value = <<Num(14)>>
       /\ OutDoc.jobs[i].matrix[2].value = <<Num(14)>>

\* number of occurrences of x in a sequence
Count(seq, x) == Cardinality({i \in DOMAIN seq : seq[i] = x})

\* C12: per-file state machine: every invocation parses first, ends normally
\* with exactly one outcome out of Unchanged, Rewritten, ParseFailed, never
\* rewrites without a match and serializes the document at most once, without
\* serializing it on the way to Unchanged.
C12_PerFileStateMachine ==
  Updated =>
    /\ pc # "rejected"
    /\ outcome.kind \in {"Unchanged", "Rewritten", "ParseFailed"}
    /\ calls[1] = "parseDocument"
    /\ outcome.kind = "Rewritten" =>
         hasNodeVersionToRemove(parseRaw(content), NODE_VERSIONS_TO_REMOVE) = "true"
    /\ Count(calls, "stringify") <= (IF outcome.kind = "Rewritten" THEN 1 ELSE 0)

\* the outcome of the invocation had it been the only one
Alone ==
  IF variant = "pull-request" THEN updateYamlFile(content, VersionSetOf(variant))
  ELSE updateYamlFile_v1(content, VersionSetOf(variant))

ContentsNotFound ==
  listing.kind = "error" /\ listing.error.hasStatus /\ listing.error.status = NOT_FOUND

\* C14: a contents request that fails with status 404 ends script() with a
\* warning, nothing pushed to the changes, no pull-request call and no labels
\* request; a contents request that fails in any other way rejects script().
C14_MissingWorkflowsPath ==
  /\ ContentsNotFound =>
       /\ pc = "done"
       /\ log[Len(log)] = "warn"
       /\ changes = initialChanges(variant)
       /\ Count(requests, "composeCreatePullRequest") = 0
       /\ Count(requests, "POST labels") = 0
       /\ pr = "none"
  /\ (listing.kind = "error" /\ ~ContentsNotFound) => pc = "rejected"

\* script.js has returned on a 404 of the workflows path
C14_Witness ==
  /\ variant = "pull-request" /\ ContentsNotFound
  /\ pc = "done" /\ requests = <<"GET contents">>

\* C15: one pull request per run, labelled only after it exists: at most one
\* pull-request call; the change list of a directory listing starts with the
\* manifest change and has exactly one entry for every .yml / .yaml entry; a
\* labels request is the request right after the pull-request call and is
\* there only when that call returned a pull request.
C15_OnePullRequestLabelledAfter ==
  /\ Count(requests, "composeCreatePullRequest") <= 1
  /\ (pc = "changes" /\ listing.kind = "dir") =>
       /\ changes[1] = <<"package.json">>
       /\ \A i \in DOMAIN listing.entries :
            listing.entries[i][Len(listing.entries[i])] \in {".yml", ".yaml"}
              => Count(changes, <<WORKFLOWS>> \o listing.entries[i]) = 1
  /\ Count(requests, "POST labels") > 0 =>
       /\ pr = "created"
       /\ Count(requests, "POST labels") = 1
       /\ requests[Len(requests)] = "POST labels"
       /\ requests[Len(requests) - 1] = "composeCreatePullRequest"
  /\ pr # "created" => Count(requests, "POST labels") = 0

\* script.js has asked for the labels of the pull request the plugin returned
C15_Witness ==
  /\ variant = "pull-request" /\ pr = "created" /\ pc = "done"
  /\ requests = <<"GET contents", "composeCreatePullRequest", "POST labels">>

\* C16: an archived repository is short-circuited in every variant: script()
\* logs one message and returns, and no request is ever issued.
C16_ArchivedShortCircuit ==
  archived =>
    /\ requests = <<>>
    /\ pc \in {"start", "done"}
    /\ pc = "done" => log = <<"info">>
    /\ changes = <<>> /\ pr = "none" /\ op = "none"

\* a text-file variant has returned on an archived repository
C16_Witness == archived /\ variant = "text-file" /\ pc = "done" /\ requests = <<>>

\* versionsToInstall as setIn stores it
InstallList == [x \in DOMAIN VersionSetOf(variant).install |-> Num(VersionSetOf(variant).install[x])]

\* C17: uniform matrix after rewrite, in script.js and in part_000: in a
\* rewritten document the jobs are the input's jobs in their order; a job
\* with a node or node_version matrix key has that key equal to
\* versionsToInstall and is otherwise as it was; a job without one is as it was.
C17_UniformMatrixAfterRewrite ==
  (op = "updateYamlFile" /\ content.exists /\ outcome.kind = "Rewritten") =>
    /\ Len(OutDoc.jobs) = Len(InDoc.jobs)
    /\ \A i \in DOMAIN InDoc.jobs :
         OutDoc.jobs[i] =
           IF HasVersionList(InDoc.jobs[i])
           THEN [InDoc.jobs[i] EXCEPT !.matrix[ListAt(InDoc.jobs[i])].value = InstallList]
           ELSE InDoc.jobs[i]

====
